---- MODULE Spec2Model ----
(***************************************************************************)
(* Model of the piano tutor's pitch-detection pipeline: the NoteDetector   *)
(* class (noteDetector.js), the codec helpers of common.js and the four    *)
(* microphone exercises (chords.js, intervals.js, memory.js, reading.js).  *)
(*                                                                         *)
(* Representation choices:                                                 *)
(*  - a frequency f > 0 is held as the integer 100 * (12*log2(f/440) + 69) *)
(*    (cents above MIDI note 0), so Math.round(12*log2(f/440)+69) is the   *)
(*    rounding of cents/100; the falsy pitch (0 or null) is NoPitch;       *)
(*  - clarity is held in percent (0.85 is 85);                             *)
(*  - time is performance.now() in milliseconds;                           *)
(*  - a Web Audio / MediaStream object is identified by the start() call   *)
(*    <<instance, call number>> that created it; NoRes is null;            *)
(*  - a JavaScript function that runs to completion inside one event is an *)
(*    operator from a world record (every mutable object a handler can     *)
(*    reach) to the world it leaves behind; a thrown exception returns the *)
(*    world as it was at the throw;                                        *)
(*  - messages are written without Polish diacritics.                      *)
(***************************************************************************)
EXTENDS Integers, Sequences, FiniteSets, TLC

VARIABLES
  screen,          \* which page's script is loaded
  now,             \* performance.now(), ms
  inst,            \* the NoteDetector instances constructed so far
  created,         \* how many instances have been constructed
  calls,           \* every start() call: where its async body stands
  liveCtx,         \* AudioContexts that are open
  liveStreams,     \* MediaStreams whose tracks are not stopped
  liveProcs,       \* ScriptProcessors connected with an onaudioprocess handler
  detector,        \* the page's `detector` variable (instance number or 0)
  target,          \* the exercise target of the page
  userNotes,       \* userPitchClasses / userSequence
  statusText,      \* which message statusEl shows
  statusClass,     \* statusEl.className
  recordStartTime, \* the page's recordStartTime (NullTime for null)
  stars,           \* localStorage pianoStars
  session,         \* number of startRecording calls so far (history)
  sessionStars,    \* stars added since the last startRecording (history)
  stops,           \* stop() calls on each instance since its last start(),
                   \* counted up to 2 (history)
  lastDelivery,    \* when each instance last called onFrequency (history)
  lastOp,          \* the operation performed by the last step (history)
  call,            \* the call of a function of common.js made last, with its
                   \* arguments and its result (the library used on its own)
  rhythm           \* the rhythm page: its variables, its tap button and its
                   \* pending timeouts

vars == <<screen, now, inst, created, calls, liveCtx, liveStreams, liveProcs,
          detector, target, userNotes, statusText, statusClass,
          recordStartTime, stars, session, sessionStars, stops, lastDelivery,
          lastOp, call, rhythm>>

----------------------------------------------------------------------------
(* Bounds of the model *)

MaxDetectors == 2
MaxStarts == 2
\* The clock advances MaxCoarseTicks times by CoarseTickMs on a page and
\* MaxFineTicks times by FineTickMs for the detector used on its own.
MaxCoarseTicks == 3
MaxFineTicks == 6
\* The longest wait of a learner who takes their time, in slow ticks.
MaxSlowTicks == 13

(* Program constants *)

DebounceMs == 250
ClarityThresholdPct == 85

\* The clock of performance.now(): the fine grid halves the throttle interval,
\* so that a frame can come before, at and after it; on the coarse grid every
\* tick passes it.  A page is ready PageReadyMs after the time origin.
FineTickMs == DebounceMs \div 2
CoarseTickMs == DebounceMs + FineTickMs
PageReadyMs == CoarseTickMs
SlowTickMs == 4 * DebounceMs

NoRes == <<0, 0>>
\* The falsy pitch (0 Hz or null): it has no logarithm, so it lies below
\* every frequency the model represents.
NoPitch == -9999999
\* No call of the library has been made.
NoLibCall == [fn |-> "none"]
NullTime == -1
\* The rhythm page before its script has played anything: currentPattern is
\* null (0), no timeout is pending and the tap button is disabled, as
\* playPattern leaves it (a tap does nothing before the page listens).
NoRhythm ==
  [currentPattern |-> 0, userTaps |-> <<>>, listening |-> FALSE,
   lastTapTime |-> NullTime, tapDisabled |-> TRUE, timers |-> {}, plays |-> 0,
   tones |-> 0, round |-> 0, roundTaps |-> 0, lastTap |-> "none",
   overlapped |-> FALSE]

----------------------------------------------------------------------------
(* common.js: codec *)

NOTE_NAMES == <<"C", "C#", "D", "D#", "E", "F", "F#", "G", "G#", "A", "A#", "B">>

\* JavaScript's % keeps the sign of the dividend.
JsMod(a, b) == IF a >= 0 THEN a % b ELSE -((-a) % b)

\* Math.round on a value given in hundredths: floor(x + 0.5).
RoundCents(c) == (c + 50) \div 100

\* Array.prototype.indexOf on NOTE_NAMES, 0-based, -1 when absent.
IndexOfNote(pc) ==
  IF \E i \in 1..12 : NOTE_NAMES[i] = pc
  THEN (CHOOSE i \in 1..12 : NOTE_NAMES[i] = pc) - 1
  ELSE -1

\* A frequency is held as hundredths of its MIDI number, 100 * (12 *
\* log2(f / 440) + 69), and a JavaScript number of this computation is a
\* double.  The largest finite double lies at MaxFiniteCents; a power of two
\* or a quotient f / 440 at or below ZeroMidi rounds to 0; from MinNormalMidi
\* upward both are normal doubles.  Between ZeroMidi and MinNormalMidi the
\* double is subnormal and carries fewer digits than the hundredths express:
\* the model draws no input from that band.
MaxFiniteCents == 1225162
ZeroMidi == -12831
MinNormalMidi == -12195
Infinity == 9000000
NaN == -9000000

IsFinite(x) == x # Infinity /\ x # -Infinity /\ x # NaN

\* Math.round(12 * Math.log2(freq / 440) + 69) for a double freq > 0.
RoundedMidi(freq) ==
  IF freq = Infinity THEN Infinity
  ELSE IF freq <= 100 * ZeroMidi THEN -Infinity
  ELSE RoundCents(freq)

\* freqToPitchClass; "" stands for null.  NOTE_NAMES[NaN] is undefined.
freqToPitchClass(freq) ==
  IF freq = NoPitch THEN ""
  ELSE LET midi == RoundedMidi(freq)
           index == JsMod(JsMod(midi, 12) + 12, 12)
       IN IF IsFinite(midi) THEN NOTE_NAMES[index + 1] ELSE ""

\* 440 * Math.pow(2, (midi - 69) / 12) for a MIDI number given in hundredths.
FreqOfMidiCents(midiCents) ==
  IF midiCents > MaxFiniteCents THEN Infinity
  ELSE IF midiCents <= 100 * ZeroMidi THEN NoPitch
  ELSE midiCents

\* pitchClassToFreq counting the semitones of a pitch class from 1.
pitchClassToFreqFromOne(pc, octaveTenths) ==
  LET semitone == IndexOfNote(pc)
  IN IF semitone < 0 THEN [ok |-> FALSE, freq |-> NoPitch]
     ELSE [ok |-> TRUE,
           freq |-> FreqOfMidiCents(100 * (semitone + 1) + (octaveTenths + 10) * 120)]

\* pitchClassToFreq with the octave given in tenths (an octave is a whole
\* number, but callers also pass a duration of 0.6 or 0.8 in its place);
\* ok = FALSE stands for the thrown "Unknown pitch class" error.
pitchClassToFreqTenths(pc, octaveTenths) ==
  LET semitone == IndexOfNote(pc)
  IN IF semitone < 0 THEN [ok |-> FALSE, freq |-> NoPitch]
     ELSE [ok |-> TRUE,
           freq |-> FreqOfMidiCents(100 * semitone + (octaveTenths + 10) * 120)]

pitchClassToFreq(pc, octave) == pitchClassToFreqTenths(pc, 10 * octave)

\* The frequency an octave higher: 2 * freq.
Twice(freq) == IF freq + 1200 > MaxFiniteCents THEN Infinity ELSE freq + 1200

\* semitoneDistance: Infinity - Infinity, and Infinity % 12, are NaN.
semitoneDistance(freq1, freq2) ==
  LET r1 == RoundedMidi(freq1)
      r2 == RoundedMidi(freq2)
  IN IF IsFinite(r1) /\ IsFinite(r2)
     THEN JsMod(JsMod(r2 - r1, 12) + 12, 12)
     ELSE NaN

----------------------------------------------------------------------------
(* common.js: parseNoteName.  A note name is a sequence of one-character
   strings, <<"A", "b", "5">> for "Ab5". *)

LetterChars == {"A", "B", "C", "D", "E", "F", "G", "a", "b", "c", "d", "e", "f", "g"}
DigitChars == {"0", "1", "2", "3", "4", "5", "6", "7", "8", "9"}

toUpperCase(c) ==
  CASE c = "a" -> "A" [] c = "b" -> "B" [] c = "c" -> "C" [] c = "d" -> "D"
    [] c = "e" -> "E" [] c = "f" -> "F" [] c = "g" -> "G" [] OTHER -> c

DigitValue(c) ==
  CASE c = "0" -> 0 [] c = "1" -> 1 [] c = "2" -> 2 [] c = "3" -> 3 [] c = "4" -> 4
    [] c = "5" -> 5 [] c = "6" -> 6 [] c = "7" -> 7 [] c = "8" -> 8 [] c = "9" -> 9

RECURSIVE DigitsValue(_)
DigitsValue(ds) ==
  IF ds = <<>> THEN 0
  ELSE 10 * DigitsValue(SubSeq(ds, 1, Len(ds) - 1)) + DigitValue(ds[Len(ds)])

RECURSIVE TrimLeft(_)
TrimLeft(s) == IF s # <<>> /\ s[1] = " " THEN TrimLeft(Tail(s)) ELSE s

RECURSIVE TrimRight(_)
TrimRight(s) ==
  IF s # <<>> /\ s[Len(s)] = " " THEN TrimRight(SubSeq(s, 1, Len(s) - 1)) ELSE s

trim(s) == TrimRight(TrimLeft(s))

\* parseNoteName taking a flat for the semitone above the letter.
parseNoteNameFlatUp(name) ==
  LET s == trim(name)
      hasAcc == Len(s) >= 2 /\ s[2] \in {"#", "b"}
      rest == IF s = <<>> THEN <<>> ELSE SubSeq(s, IF hasAcc THEN 3 ELSE 2, Len(s))
      neg == rest # <<>> /\ rest[1] = "-"
      digs == IF neg THEN Tail(rest) ELSE rest
      match == /\ s # <<>>
               /\ s[1] \in LetterChars
               /\ digs # <<>>
               /\ \A i \in 1..Len(digs) : digs[i] \in DigitChars
      letter == toUpperCase(s[1])
      accidental == IF hasAcc THEN s[2] ELSE ""
      pc == IF accidental = "#" THEN letter \o "#"
            ELSE IF accidental = "b"
                 THEN NOTE_NAMES[((IndexOfNote(letter) + 1) % 12) + 1]
                 ELSE letter
      octave == IF neg THEN 0 - DigitsValue(digs) ELSE DigitsValue(digs)
  IN IF match THEN [ok |-> TRUE, pc |-> pc, octave |-> octave]
     ELSE [ok |-> FALSE, pc |-> "", octave |-> 0]

\* parseNoteName: ok = FALSE stands for the thrown "Invalid note name" error.
parseNoteName(name) ==
  LET s == trim(name)
      hasAcc == Len(s) >= 2 /\ s[2] \in {"#", "b"}
      rest == IF s = <<>> THEN <<>> ELSE SubSeq(s, IF hasAcc THEN 3 ELSE 2, Len(s))
      neg == rest # <<>> /\ rest[1] = "-"
      digs == IF neg THEN Tail(rest) ELSE rest
      match == /\ s # <<>>
               /\ s[1] \in LetterChars
               /\ digs # <<>>
               /\ \A i \in 1..Len(digs) : digs[i] \in DigitChars
      letter == toUpperCase(s[1])
      accidental == IF hasAcc THEN s[2] ELSE ""
      pc == IF accidental = "#" THEN letter \o "#"
            ELSE IF accidental = "b"
                 THEN NOTE_NAMES[((IndexOfNote(letter) + 11) % 12) + 1]
                 ELSE letter
      octave == IF neg THEN 0 - DigitsValue(digs) ELSE DigitsValue(digs)
  IN IF match THEN [ok |-> TRUE, pc |-> pc, octave |-> octave]
     ELSE [ok |-> FALSE, pc |-> "", octave |-> 0]

\* The string a sequence of characters spells.
RECURSIVE JoinChars(_)
JoinChars(s) == IF s = <<>> THEN "" ELSE s[1] \o JoinChars(Tail(s))

\* noteNameToFreq: ok = FALSE when parseNoteName or pitchClassToFreq throws.
noteNameToFreq(name) ==
  LET parsed == parseNoteName(name)
  IN IF parsed.ok THEN pitchClassToFreq(parsed.pc, parsed.octave)
     ELSE [ok |-> FALSE, freq |-> NoPitch]

\* The second argument of playSingleNote left out by the caller.
Undefined == [type |-> "undefined", tenths |-> 0]
Number(tenths) == [type |-> "number", tenths |-> tenths]

\* playSingleNote(pcOrName, octave, duration, volume) up to the frequency it
\* gives the oscillator; the third argument only sets the length or the volume
\* of the tone.  thrown = TRUE stands for the error of the codec, which leaves
\* the function before any tone is made.
playSingleNote(pcOrName, octave) ==
  LET resolved == IF octave.type = "number"
                  THEN pitchClassToFreqTenths(JoinChars(pcOrName), octave.tenths)
                  ELSE noteNameToFreq(pcOrName)
  IN [thrown |-> ~resolved.ok, freq |-> resolved.freq,
      byName |-> octave.type # "number"]

----------------------------------------------------------------------------
(* noteDetector.js: the NoteDetector class *)

Detectors == 1..MaxDetectors
CallIds == Detectors \X (1..MaxStarts)

\* constructor: the fields of a new instance.
NewDetector ==
  [audioCtx |-> NoRes, stream |-> NoRes, source |-> NoRes, processor |-> NoRes,
   detector |-> FALSE, detectorClass |-> FALSE, lastDetectTime |-> 0]

\* A start() call: where its body stands (at), whether its first await resumes
\* in a microtask (micro), how getUserMedia ended (mic), how the returned
\* promise settled (promise), and whether the instance was capturing when
\* the call was made (restart).
NoCall ==
  [at |-> "none", micro |-> FALSE, mic |-> "none", promise |-> "none",
   restart |-> FALSE]

\* The mutable objects a handler can reach.
World ==
  [inst |-> inst, liveCtx |-> liveCtx, liveStreams |-> liveStreams,
   liveProcs |-> liveProcs, detector |-> detector, userNotes |-> userNotes,
   statusText |-> statusText, statusClass |-> statusClass, stars |-> stars,
   sessionStars |-> sessionStars, stops |-> stops, called |-> FALSE]

Commit(w) ==
  /\ inst' = w.inst
  /\ liveCtx' = w.liveCtx
  /\ liveStreams' = w.liveStreams
  /\ liveProcs' = w.liveProcs
  /\ detector' = w.detector
  /\ userNotes' = w.userNotes
  /\ statusText' = w.statusText
  /\ statusClass' = w.statusClass
  /\ stars' = w.stars
  /\ sessionStars' = w.sessionStars
  /\ stops' = w.stops

\* stop() without the release of the microphone stream.
stopKeepsStream(w, d) ==
  LET i == w.inst[d]
  IN [w EXCEPT
        !.inst[d] = [i EXCEPT !.processor = NoRes, !.source = NoRes,
                              !.audioCtx = NoRes, !.detector = FALSE],
        !.liveProcs = {p \in @ : p.id # i.processor /\ p.ctx # i.audioCtx},
        !.liveCtx = @ \ {i.audioCtx}]

\* stop(): each field that is set is released and nulled.  Closing an
\* AudioContext silences every processor created in it.
stop(w, d) ==
  LET i == w.inst[d]
      procs1 == IF i.processor # NoRes
                THEN {p \in w.liveProcs : p.id # i.processor}
                ELSE w.liveProcs
      procs2 == IF i.audioCtx # NoRes
                THEN {p \in procs1 : p.ctx # i.audioCtx}
                ELSE procs1
  IN [w EXCEPT
        !.inst[d] = [i EXCEPT !.processor = NoRes, !.source = NoRes,
                              !.stream = NoRes, !.audioCtx = NoRes,
                              !.detector = FALSE],
        !.liveProcs = procs2,
        !.liveStreams = IF i.stream # NoRes THEN @ \ {i.stream} ELSE @,
        !.liveCtx = IF i.audioCtx # NoRes THEN @ \ {i.audioCtx} ELSE @]

\* A call of stop() on instance d, noted in the history.
CallStop(w, d) ==
  [stop(w, d) EXCEPT !.stops[d] = IF @ < 2 THEN @ + 1 ELSE @]

\* The number of start() calls made on instance d so far.
StartCount(d) == Cardinality({g \in 1..MaxStarts : calls[<<d, g>>].at # "none"})

\* start(), up to its first await: _loadPitchy returns at once when
\* this.detector is set (the await then resumes in a microtask), otherwise it
\* awaits the dynamic import.
StartCall(d) ==
  [calls EXCEPT ![<<d, StartCount(d) + 1>>] =
     [at |-> "import", micro |-> inst[d].detector, mic |-> "none",
      promise |-> "pending", restart |-> inst[d].processor # NoRes]]

\* A microtask runs before any other event is dispatched.
MicrotaskPending == \E c \in CallIds : calls[c].at = "import" /\ calls[c].micro

----------------------------------------------------------------------------
(* The exercises: shared pieces *)

\* The reward tiers with the cutoffs themselves left out of each tier.
StarsForStrict(t, rst, fastS, midS) ==
  IF rst = NullTime \/ rst = 0 THEN 1
  ELSE IF t - rst < fastS * 1000 THEN 3
  ELSE IF t - rst < midS * 1000 THEN 2
  ELSE 1

\* recordStartTime ? (performance.now() - recordStartTime) / 1000 : null,
\* then the three reward tiers; the cutoffs are given in seconds.
StarsFor(t, rst, fastS, midS) ==
  IF rst = NullTime \/ rst = 0 THEN 1
  ELSE IF t - rst <= fastS * 1000 THEN 3
  ELSE IF t - rst <= midS * 1000 THEN 2
  ELSE 1

\* addStars: the counter in localStorage grows by n.
addStars(w, n) == [w EXCEPT !.stars = @ + n, !.sessionStars = @ + n]

Status(msg, n, heard) == [msg |-> msg, stars |-> n, heard |-> heard]
NoStatus == Status("", 0, "")
Listening == Status("Nasluchiwanie...", 0, "")

SuccessMsgs ==
  {"Brawo! Zagrales poprawny akord.",
   "Swietnie! Poprawnie rozpoznales interwal.",
   "Doskonale! Powtorzyles sekwencje poprawnie.",
   "Brawo! Poprawna nuta."}

FailureMsgs ==
  {"Zagrales za duzo nut. Sprobuj ponownie.",
   "Niestety, to %actual%. Sprobuj ponownie.",
   "Liczba dzwiekow sie nie zgadza. Sprobuj ponownie.",
   "Niestety, sekwencja byla inna. Sprobuj ponownie.",
   "To byl dzwiek %naturalPc%. Sprobuj ponownie."}

\* The verdict the page displays.
Verdict(st) ==
  IF st.msg \in SuccessMsgs THEN "success"
  ELSE IF st.msg \in FailureMsgs THEN "failure"
  ELSE "collecting"

Includes(list, x) == \E i \in 1..Len(list) : list[i] = x

\* `detector.stop(); detector = null;` inside a callback.  With the page's
\* variable already null the call throws a TypeError: thrown |-> TRUE.
StopPageDetector(w) ==
  IF w.detector = 0 THEN [w |-> w, thrown |-> TRUE]
  ELSE [w |-> [CallStop(w, w.detector) EXCEPT !.detector = 0], thrown |-> FALSE]

----------------------------------------------------------------------------
(* chords.js *)

CHORDS ==
  << [name |-> "C dur", notes |-> << <<"C","4">>, <<"E","4">>, <<"G","4">> >>],
     [name |-> "G dur", notes |-> << <<"G","3">>, <<"B","3">>, <<"D","4">> >>],
     [name |-> "F dur", notes |-> << <<"F","3">>, <<"A","3">>, <<"C","4">> >>],
     [name |-> "D mol", notes |-> << <<"D","4">>, <<"F","4">>, <<"A","4">> >>],
     [name |-> "A mol", notes |-> << <<"A","3">>, <<"C","4">>, <<"E","4">> >>],
     [name |-> "E mol", notes |-> << <<"E","3">>, <<"G","3">>, <<"B","3">> >>],
     [name |-> "B zmniejszony", notes |-> << <<"B","3">>, <<"D","4">>, <<"F","4">> >>] >>

\* expectedPitchClasses of chord number k.
ChordTarget(k) ==
  [chord |-> k,
   expected |-> [i \in 1..Len(CHORDS[k].notes) |-> parseNoteName(CHORDS[k].notes[i]).pc]]

\* The callback of chords.js appending every pitch class it hears.
ChordsCountsRepeats(w, freq, t) ==
  LET pitchClass == freqToPitchClass(freq)
  IN IF pitchClass = "" THEN w
     ELSE [w EXCEPT !.userNotes = Append(@, pitchClass)]

\* The callback of chords.js without the test for too many notes.
ChordsNoEarlyExit(w, freq, t) ==
  LET pitchClass == freqToPitchClass(freq)
      expected == target.expected
      pushed == [w EXCEPT !.userNotes = Append(@, pitchClass)]
      allMatch == \A i \in 1..Len(expected) : Includes(pushed.userNotes, expected[i])
      n == StarsFor(t, recordStartTime, 5, 10)
      won == addStars([pushed EXCEPT
                         !.statusText = Status("Brawo! Zagrales poprawny akord.", n, ""),
                         !.statusClass = "status result-success"], n)
  IN IF pitchClass = "" THEN w
     ELSE IF Includes(w.userNotes, pitchClass) THEN w
     ELSE IF allMatch THEN StopPageDetector(won).w
     ELSE pushed

\* The onFrequency callback of chords.js at time t.
ChordsOnFrequency(w, freq, t) ==
  LET pitchClass == freqToPitchClass(freq)
      expected == target.expected
      pushed == [w EXCEPT !.userNotes = Append(@, pitchClass)]
      allMatch == \A i \in 1..Len(expected) : Includes(pushed.userNotes, expected[i])
      n == StarsFor(t, recordStartTime, 5, 10)
      won == addStars([pushed EXCEPT
                         !.statusText = Status("Brawo! Zagrales poprawny akord.", n, ""),
                         !.statusClass = "status result-success"], n)
      afterMatch == IF allMatch THEN StopPageDetector(won)
                    ELSE [w |-> pushed, thrown |-> FALSE]
      tooMany == [afterMatch.w EXCEPT
                    !.statusText = Status("Zagrales za duzo nut. Sprobuj ponownie.", 0, ""),
                    !.statusClass = "status result-failure"]
  IN IF pitchClass = "" THEN w
     ELSE IF Includes(w.userNotes, pitchClass) THEN w
     ELSE IF afterMatch.thrown THEN afterMatch.w
     ELSE IF Len(pushed.userNotes) > Len(expected) THEN StopPageDetector(tooMany).w
     ELSE afterMatch.w

----------------------------------------------------------------------------
(* intervals.js *)

\* The label without the table: the numeric form for every distance.
intervalNameNumeric(semitones) == ToString(semitones) \o " poltonow"

intervalNameFromSemitone(semitones) ==
  CASE semitones = 0 -> "pryma czysta"
    [] semitones = 1 -> "sekunda mala"
    [] semitones = 2 -> "sekunda wielka"
    [] semitones = 3 -> "tercja mala"
    [] semitones = 4 -> "tercja wielka"
    [] semitones = 5 -> "kwarta czysta"
    [] semitones = 6 -> "tryton"
    [] semitones = 7 -> "kwinta czysta"
    [] semitones = 8 -> "seksta mala"
    [] semitones = 9 -> "seksta wielka"
    [] semitones = 10 -> "septyma mala"
    [] semitones = 11 -> "septyma wielka"
    [] OTHER -> ToString(semitones) \o " poltonow"

\* The distance of evaluateInterval with the order of the notes left out.
unorderedDistance(idx1, idx2) == IF idx2 >= idx1 THEN idx2 - idx1 ELSE idx1 - idx2

\* const diff = ((idx2 - idx1) % 12 + 12) % 12
observedDistance(idx1, idx2) == JsMod(JsMod(idx2 - idx1, 12) + 12, 12)

evaluateInterval(w, t) ==
  IF Len(w.userNotes) < 2 THEN w
  ELSE LET idx1 == IndexOfNote(w.userNotes[1])
           idx2 == IndexOfNote(w.userNotes[2])
           diff == observedDistance(idx1, idx2)
           n == StarsFor(t, recordStartTime, 4, 8)
       IN IF idx1 = -1 \/ idx2 = -1 THEN w
          ELSE IF diff = target.semitone
          THEN addStars([w EXCEPT
                  !.statusText = Status("Swietnie! Poprawnie rozpoznales interwal.", n, ""),
                  !.statusClass = "status result-success"], n)
          ELSE [w EXCEPT
                  !.statusText = Status("Niestety, to %actual%. Sprobuj ponownie.", 0,
                                        intervalNameFromSemitone(diff)),
                  !.statusClass = "status result-failure"]

\* The onFrequency callback of intervals.js at time t.
IntervalsOnFrequency(w, freq, t) ==
  LET pc == freqToPitchClass(freq)
      pushed == [w EXCEPT !.userNotes = Append(@, pc)]
      stopped == StopPageDetector(pushed)
  IN IF pc = "" THEN w
     ELSE IF Includes(w.userNotes, pc) THEN w
     ELSE IF Len(pushed.userNotes) # 2 THEN pushed
     ELSE IF stopped.thrown THEN stopped.w
     ELSE evaluateInterval(stopped.w, t)

----------------------------------------------------------------------------
(* memory.js *)

SEQ_LENGTH == 3
Naturals7 == {"C", "D", "E", "F", "G", "A", "B"}

evaluateSequence(w, t) ==
  LET expected == target.expected
      correct == \A i \in 1..Len(expected) : expected[i] = w.userNotes[i]
      n == StarsFor(t, recordStartTime, SEQ_LENGTH * 2, SEQ_LENGTH * 4)
  IN IF Len(w.userNotes) # Len(expected)
     THEN [w EXCEPT
             !.statusText = Status("Liczba dzwiekow sie nie zgadza. Sprobuj ponownie.", 0, ""),
             !.statusClass = "status result-failure"]
     ELSE IF correct
     THEN addStars([w EXCEPT
             !.statusText = Status("Doskonale! Powtorzyles sekwencje poprawnie.", n, ""),
             !.statusClass = "status result-success"], n)
     ELSE [w EXCEPT
             !.statusText = Status("Niestety, sekwencja byla inna. Sprobuj ponownie.", 0, ""),
             !.statusClass = "status result-failure"]

\* The callback of memory.js judging as soon as a collected note is wrong.
MemoryFailsEarly(w, freq, t) ==
  LET pc == freqToPitchClass(freq)
      pushed == [w EXCEPT !.userNotes = Append(@, pc)]
      k == Len(pushed.userNotes)
  IN IF pc = "" \/ pc \notin Naturals7 THEN w
     ELSE IF ~(Len(w.userNotes) < Len(target.expected)) THEN w
     ELSE IF k = Len(target.expected) \/ pc # target.expected[k]
     THEN evaluateSequence(StopPageDetector(pushed).w, t)
     ELSE pushed

\* The callback of memory.js without the test for naturals.
MemoryAppendsAll(w, freq, t) ==
  LET pc == freqToPitchClass(freq)
      pushed == [w EXCEPT !.userNotes = Append(@, pc)]
  IN IF pc = "" THEN w
     ELSE IF ~(Len(w.userNotes) < Len(target.expected)) THEN w
     ELSE IF Len(pushed.userNotes) # Len(target.expected) THEN pushed
     ELSE evaluateSequence(StopPageDetector(pushed).w, t)

\* The onFrequency callback of memory.js at time t.
MemoryOnFrequency(w, freq, t) ==
  LET pc == freqToPitchClass(freq)
      pushed == [w EXCEPT !.userNotes = Append(@, pc)]
      stopped == StopPageDetector(pushed)
  IN IF pc = "" THEN w
     ELSE IF pc \notin Naturals7 THEN w
     ELSE IF ~(Len(w.userNotes) < Len(target.expected)) THEN w
     ELSE IF Len(pushed.userNotes) # Len(target.expected) THEN pushed
     ELSE IF stopped.thrown THEN stopped.w
     ELSE evaluateSequence(stopped.w, t)

----------------------------------------------------------------------------
(* reading.js *)

NATURAL_NOTES ==
  << <<"E","4">>, <<"F","4">>, <<"G","4">>, <<"A","4">>, <<"B","4">>,
     <<"C","5">>, <<"D","5">>, <<"E","5">>, <<"F","5">> >>

\* String.prototype.replace(/#/, '') on a pitch class.
StripSharp(pc) ==
  IF \E l \in Naturals7 : pc = l \o "#"
  THEN CHOOSE l \in Naturals7 : pc = l \o "#"
  ELSE pc

\* The callback of reading.js comparing the pitch classes as they are.
ReadingExactMatch(w, freq, t) ==
  LET pc == freqToPitchClass(freq)
      n == StarsFor(t, recordStartTime, 3, 6)
      judged == IF pc = parseNoteName(target.note).pc
                THEN addStars([w EXCEPT
                        !.statusText = Status("Brawo! Poprawna nuta.", n, ""),
                        !.statusClass = "status result-success"], n)
                ELSE [w EXCEPT
                        !.statusText = Status("To byl dzwiek %naturalPc%. Sprobuj ponownie.",
                                              0, pc),
                        !.statusClass = "status result-failure"]
  IN IF pc = "" THEN w ELSE StopPageDetector(judged).w

\* The onFrequency callback of reading.js at time t.
ReadingOnFrequency(w, freq, t) ==
  LET pc == freqToPitchClass(freq)
      naturalPc == StripSharp(pc)
      expectedPc == StripSharp(parseNoteName(target.note).pc)
      n == StarsFor(t, recordStartTime, 3, 6)
      judged == IF naturalPc = expectedPc
                THEN addStars([w EXCEPT
                        !.statusText = Status("Brawo! Poprawna nuta.", n, ""),
                        !.statusClass = "status result-success"], n)
                ELSE [w EXCEPT
                        !.statusText = Status("To byl dzwiek %naturalPc%. Sprobuj ponownie.",
                                              0, naturalPc),
                        !.statusClass = "status result-failure"]
  IN IF pc = "" THEN w ELSE StopPageDetector(judged).w

----------------------------------------------------------------------------
(* noteDetector.js: the capture loop *)

\* The observer of the detector used on its own only takes note of the call.
ApiObserver(w, d) == w

\* this.onFrequency(pitch): the callback the page gave the constructor.  Every
\* callback of a page closes over the page's variables only.
onFrequency(w, d, freq, t) ==
  CASE screen = "chords" -> ChordsOnFrequency(w, freq, t)
    [] screen = "intervals" -> IntervalsOnFrequency(w, freq, t)
    [] screen = "memory" -> MemoryOnFrequency(w, freq, t)
    [] screen = "reading" -> ReadingOnFrequency(w, freq, t)
    [] OTHER -> ApiObserver(w, d)

\* The test of the interval left out, and made with >=.
ThrottleNone(t, last) == TRUE
ThrottleAtLeast(t, last) == t - last >= DebounceMs

\* now - this.lastDetectTime > 250
Throttle(t, last) == t - last > DebounceMs

\* pitch && clarity >= this.clarityThreshold
Reliable(pitch, clarity) == pitch # NoPitch /\ clarity >= ClarityThresholdPct

\* processor.onaudioprocess on instance d with the frame's [pitch, clarity]
\* at time t.  With this.detector null, findPitch throws a TypeError.
onaudioprocess(w, d, pitch, clarity, t) ==
  IF ~w.inst[d].detector THEN w
  ELSE IF ~Reliable(pitch, clarity) THEN w
  ELSE IF ~Throttle(t, w.inst[d].lastDetectTime) THEN w
  ELSE onFrequency([w EXCEPT !.inst[d].lastDetectTime = t, !.called = TRUE],
                   d, pitch, t)

\* Frame inputs <<pitch, clarity>>: no pitch, an unclear C4, and a clear C4,
\* C#4, E4 and G4 (a clear C4 and G4 for the detector used on its own).
FrameInputs ==
  {<<NoPitch, 85>>, <<6000, 84>>, <<6000, 85>>, <<6700, 85>>}
    \cup (IF screen = "api" THEN {} ELSE {<<6100, 85>>, <<6400, 85>>})

\* The record of a step: the history tells the calls of stop() on the detector
\* used on its own, and the frames, from every other step.  On a page a frame
\* is recorded when its detection was delivered to the callback.
Op(name, d) ==
  [op |-> IF screen = "api" /\ name = "stop" THEN name ELSE "step",
   d |-> IF screen = "api" /\ name = "stop" THEN d ELSE 0,
   armed |-> FALSE, pitch |-> NoPitch, clarity |-> 0, last |-> 0,
   delivered |-> FALSE]

FrameOp(d, armed, pitch, clarity, last, delivered) ==
  IF screen = "api" \/ delivered
  THEN [op |-> "frame", d |-> d, armed |-> armed, pitch |-> pitch,
        clarity |-> clarity, last |-> last, delivered |-> delivered]
  ELSE Op("frame", d)

Frame(p, pitch, clarity) ==
  /\ ~MicrotaskPending
  /\ p \in liveProcs
  /\ LET d == p.id[1]
         w == onaudioprocess(World, d, pitch, clarity, now)
     IN /\ Commit(w)
        /\ lastOp' = FrameOp(d, inst[d].detector, pitch, clarity, lastDelivery[d],
                              w.called)
        /\ lastDelivery' = IF w.called THEN [lastDelivery EXCEPT ![d] = now]
                           ELSE lastDelivery
  /\ UNCHANGED <<rhythm, call, screen, now, created, calls, target, recordStartTime, session>>

TickStep == IF screen = "api" THEN FineTickMs ELSE CoarseTickMs
MaxNow ==
  IF screen = "api" THEN MaxFineTicks * FineTickMs
  ELSE PageReadyMs + MaxCoarseTicks * CoarseTickMs

Tick ==
  /\ ~MicrotaskPending
  /\ now + TickStep <= MaxNow
  /\ now' = now + TickStep
  /\ lastOp' = Op("tick", 0)
  /\ UNCHANGED <<rhythm, call, screen, inst, created, calls, liveCtx, liveStreams, liveProcs,
                 detector, target, userNotes, statusText, statusClass,
                 recordStartTime, stars, session, sessionStars, stops, lastDelivery>>

----------------------------------------------------------------------------
(* noteDetector.js: start() after each await *)

\* After `await this._loadPitchy()`: a new AudioContext replaces this.audioCtx,
\* the pitch detector is prepared, getUserMedia is called.
ImportDone(c) ==
  /\ calls[c].at = "import"
  /\ calls[c].micro \/ ~MicrotaskPending
  /\ inst' = [inst EXCEPT ![c[1]].detectorClass = IF calls[c].micro THEN @ ELSE TRUE,
                          ![c[1]].audioCtx = c,
                          ![c[1]].detector = TRUE]
  /\ liveCtx' = liveCtx \cup {c}
  /\ calls' = [calls EXCEPT ![c].at = "mic"]
  /\ lastOp' = Op("import", c[1])
  /\ UNCHANGED <<rhythm, call, screen, now, created, liveStreams, liveProcs, detector, target,
                 userNotes, statusText, statusClass, recordStartTime, stars,
                 session, sessionStars, stops, lastDelivery>>

\* getUserMedia rejects: console.error, alert, return.
MicDenied(c) ==
  /\ calls[c].at = "mic"
  /\ ~MicrotaskPending
  /\ calls' = [calls EXCEPT ![c].at = "settled", ![c].mic = "denied",
                            ![c].promise = "fulfilled"]
  /\ lastOp' = Op("micDenied", c[1])
  /\ UNCHANGED <<rhythm, call, screen, now, inst, created, liveCtx, liveStreams, liveProcs,
                 detector, target, userNotes, statusText, statusClass,
                 recordStartTime, stars, session, sessionStars, stops, lastDelivery>>

\* The fields after getUserMedia resolved with stream c: with this.audioCtx
\* null, createMediaStreamSource throws after this.stream was assigned.
Acquire(i, c) ==
  IF i.audioCtx = NoRes THEN [i EXCEPT !.stream = c]
  ELSE [i EXCEPT !.stream = c, !.source = c, !.processor = c]

MicGranted(c) ==
  /\ calls[c].at = "mic"
  /\ ~MicrotaskPending
  /\ inst' = [inst EXCEPT ![c[1]] = Acquire(@, c)]
  /\ liveStreams' = liveStreams \cup {c}
  /\ liveProcs' = IF inst'[c[1]].processor = c
                  THEN liveProcs \cup {[id |-> c, ctx |-> inst[c[1]].audioCtx]}
                  ELSE liveProcs
  /\ calls' = [calls EXCEPT ![c].at = "settled", ![c].mic = "granted",
                            ![c].promise = IF inst'[c[1]].processor = c
                                           THEN "fulfilled" ELSE "rejected"]
  /\ lastOp' = Op("micGranted", c[1])
  /\ UNCHANGED <<rhythm, call, screen, now, created, liveCtx, detector, target, userNotes,
                 statusText, statusClass, recordStartTime, stars, session,
                 sessionStars, stops, lastDelivery>>

----------------------------------------------------------------------------
(* The pages: record button and target buttons *)

\* The exercise data a run draws from (each a part of the page's catalogue).
ModelChords == {1, 5}
ModelIntervals == {4, 7}
ModelBases == { <<"B","3">> }
ModelSequences == { <<"C","E","G">>, <<"C","C","E">> }
ModelNotes == {1, 6}

\* `if (detector) { detector.stop(); detector = null; }`
StopPrevious(w) ==
  IF w.detector # 0 THEN [CallStop(w, w.detector) EXCEPT !.detector = 0] ELSE w

\* The part every startRecording shares: the previous detector is stopped, a
\* new NoteDetector is constructed and start() is called on it.
BeginSession(w) ==
  /\ ~MicrotaskPending
  /\ created < MaxDetectors
  /\ Commit([w EXCEPT !.detector = created + 1, !.sessionStars = 0,
                       !.stops[created + 1] = 0])
  /\ created' = created + 1
  /\ calls' = StartCall(created + 1)
  /\ recordStartTime' = now
  /\ session' = session + 1
  /\ lastOp' = Op("startRecording", created + 1)
  /\ UNCHANGED <<rhythm, call, screen, now, target, lastDelivery>>

ChordsStartRecording ==
  /\ screen = "chords"
  /\ BeginSession([StopPrevious(World) EXCEPT
                     !.userNotes = <<>>, !.statusText = Listening])

IntervalsStartRecording ==
  /\ screen = "intervals"
  /\ BeginSession([StopPrevious(World) EXCEPT
                     !.userNotes = <<>>, !.statusText = Listening,
                     !.statusClass = "status"])

MemoryStartRecording ==
  /\ screen = "memory"
  /\ BeginSession([StopPrevious(World) EXCEPT
                     !.userNotes = <<>>, !.statusText = Listening,
                     !.statusClass = "status"])

ReadingStartRecording ==
  /\ screen = "reading"
  /\ BeginSession([StopPrevious(World) EXCEPT
                     !.statusText = Listening, !.statusClass = "status"])

\* A target button: the page's variables change, no detector call starts.
NewTarget(w, tgt, name) ==
  /\ ~MicrotaskPending
  /\ Commit(w)
  /\ target' = tgt
  /\ lastOp' = Op(name, 0)
  /\ UNCHANGED <<rhythm, call, screen, now, created, calls, recordStartTime, session, lastDelivery>>

pickRandomChord ==
  /\ screen = "chords"
  /\ \E k \in ModelChords :
       /\ k # target.chord
       /\ NewTarget([World EXCEPT !.userNotes = <<>>, !.statusText = NoStatus],
                    ChordTarget(k), "pickRandomChord")

\* The name of a note from its pitch class and a one-digit octave.
NoteChars(pc, octave) ==
  IF StripSharp(pc) # pc THEN <<StripSharp(pc), "#", ToString(octave)>>
  ELSE <<pc, ToString(octave)>>

\* The exercise with the second note kept in the octave of the base note.
IntervalTargetSameOctave(semitone, baseName) ==
  LET base == parseNoteName(baseName)
      midiSecond == IndexOfNote(base.pc) + (base.octave + 1) * 12 + semitone
      secondPc == NOTE_NAMES[JsMod(JsMod(midiSecond, 12) + 12, 12) + 1]
  IN [semitone |-> semitone,
      notes |-> <<baseName, NoteChars(secondPc, base.octave)>>]

\* currentIntervalSemitone and expectedIntervalNotes for an option and a base.
IntervalTarget(semitone, baseName) ==
  LET base == parseNoteName(baseName)
      midiBase == IndexOfNote(base.pc) + (base.octave + 1) * 12
      midiSecond == midiBase + semitone
      secondPc == NOTE_NAMES[JsMod(JsMod(midiSecond, 12) + 12, 12) + 1]
      secondOct == (midiSecond \div 12) - 1
  IN [semitone |-> semitone,
      notes |-> <<baseName, NoteChars(secondPc, secondOct)>>]

pickRandomInterval ==
  /\ screen = "intervals"
  /\ \E k \in ModelIntervals, b \in ModelBases :
       NewTarget([World EXCEPT !.userNotes = <<>>, !.statusText = NoStatus,
                               !.statusClass = "status"],
                 IntervalTarget(k, b), "pickRandomInterval")

generateSequence ==
  /\ screen = "memory"
  /\ \E q \in ModelSequences :
       NewTarget([World EXCEPT !.userNotes = <<>>, !.statusText = NoStatus],
                 [expected |-> q], "generateSequence")

generateNewNote ==
  /\ screen = "reading"
  /\ \E k \in ModelNotes :
       NewTarget([StopPrevious(World) EXCEPT
                    !.statusText = NoStatus, !.statusClass = "status"],
                 [note |-> NATURAL_NOTES[k]], "generateNewNote")

----------------------------------------------------------------------------
(* The detector used on its own: any caller of start() and stop() *)

ApiStart(d) ==
  /\ screen = "api"
  /\ d <= created
  /\ StartCount(d) < MaxStarts
  /\ calls' = StartCall(d)
  /\ stops' = [stops EXCEPT ![d] = 0]
  /\ lastOp' = Op("start", d)
  /\ UNCHANGED <<rhythm, call, screen, now, inst, created, liveCtx, liveStreams, liveProcs,
                 detector, target, userNotes, statusText, statusClass,
                 recordStartTime, stars, session, sessionStars, stops, lastDelivery>>

ApiStop(d) ==
  /\ screen = "api"
  /\ d <= created
  /\ Commit(CallStop(World, d))
  /\ lastOp' = Op("stop", d)
  /\ UNCHANGED <<rhythm, call, screen, now, created, calls, target, recordStartTime, session,
                 lastDelivery>>

----------------------------------------------------------------------------
(* Specifications *)

InitCommon ==
  /\ inst = [d \in Detectors |-> NewDetector]
  /\ calls = [c \in CallIds |-> NoCall]
  /\ liveCtx = {}
  /\ liveStreams = {}
  /\ liveProcs = {}
  /\ detector = 0
  /\ userNotes = <<>>
  /\ statusText = NoStatus
  /\ statusClass = "status"
  /\ recordStartTime = NullTime
  /\ stars = 0
  /\ session = 0
  /\ sessionStars = 0
  /\ stops = [d \in Detectors |-> 0]
  /\ lastDelivery = [d \in Detectors |-> NullTime]
  /\ lastOp = [op |-> "load", d |-> 0, armed |-> FALSE, pitch |-> NoPitch,
               clarity |-> 0, last |-> 0, delivered |-> FALSE]
  /\ call = NoLibCall
  /\ rhythm = NoRhythm

\* A page after its script ran: each page draws its first target at load.
Init ==
  /\ InitCommon
  /\ now = PageReadyMs
  /\ created = 0
  /\ \/ screen = "chords" /\ \E k \in ModelChords : target = ChordTarget(k)
     \/ screen = "intervals"
          /\ \E k \in ModelIntervals, b \in ModelBases : target = IntervalTarget(k, b)
     \/ screen = "memory" /\ \E q \in ModelSequences : target = [expected |-> q]
     \/ screen = "reading" /\ \E k \in ModelNotes : target = [note |-> NATURAL_NOTES[k]]

DetectorStep ==
  \/ \E c \in CallIds : ImportDone(c)
  \/ \E c \in CallIds : MicDenied(c)
  \/ \E c \in CallIds : MicGranted(c)
  \/ \E p \in liveProcs, f \in FrameInputs : Frame(p, f[1], f[2])
  \/ Tick

Next ==
  \/ ChordsStartRecording
  \/ IntervalsStartRecording
  \/ MemoryStartRecording
  \/ ReadingStartRecording
  \/ pickRandomChord
  \/ pickRandomInterval
  \/ generateSequence
  \/ generateNewNote
  \/ DetectorStep

Spec == Init /\ [][Next]_vars

\* One NoteDetector and a caller that starts and stops it at will.
InitApi ==
  /\ InitCommon
  /\ now = 0
  /\ screen = "api"
  /\ created = 1
  /\ target = [none |-> TRUE]

NextApi ==
  \/ \E d \in Detectors : ApiStart(d)
  \/ \E d \in Detectors : ApiStop(d)
  \/ DetectorStep

SpecApi == InitApi /\ [][NextApi]_vars

\* A learner who clicks the record button once, as soon as the page is ready,
\* and then takes up to MaxSlowTicks seconds: time passes a second at a time,
\* and one millisecond more where a whole number of seconds has passed.
Wait ==
  /\ ~MicrotaskPending
  /\ \E ms \in {1, SlowTickMs} :
       /\ ms = 1 => (now - PageReadyMs) % SlowTickMs = 0
       /\ now + ms <= PageReadyMs + MaxSlowTicks * SlowTickMs + 1
       /\ now' = now + ms
  /\ lastOp' = Op("wait", 0)
  /\ UNCHANGED <<rhythm, call, screen, inst, created, calls, liveCtx, liveStreams, liveProcs,
                 detector, target, userNotes, statusText, statusClass,
                 recordStartTime, stars, session, sessionStars, stops, lastDelivery>>

StartOnce ==
  /\ created = 0
  /\ now = PageReadyMs
  /\ \/ ChordsStartRecording
     \/ IntervalsStartRecording
     \/ MemoryStartRecording
     \/ ReadingStartRecording

NextSlow ==
  \/ StartOnce
  \/ \E c \in CallIds : ImportDone(c)
  \/ \E c \in CallIds : MicGranted(c)
  \/ \E p \in liveProcs, f \in FrameInputs : Frame(p, f[1], f[2])
  \/ Wait

SpecSlow == Init /\ [][NextSlow]_vars

----------------------------------------------------------------------------
(* common.js used on its own: any caller of its functions *)

\* Note names: a letter or another character, an accidental or another
\* character or none, and an octave, well formed or not.
NameInputs ==
  {<<l>> \o a \o o :
     l \in LetterChars \cup {"H", "4"},
     a \in {<<>>, <<"#">>, <<"b">>, <<"x">>},
     o \in {<<>>, <<"4">>, <<"5">>, <<"-", "1">>, <<"1", "0">>, <<"-">>}}
    \cup {<<>>, <<" ", "A", "b", "5", " ">>, <<"G", "#", "5", "x">>, <<"C", " ", "4">>}

\* Pitch classes, canonical or not, and octaves from far below to far above
\* the range of a double.
PitchClassInputs == {NOTE_NAMES[i] : i \in 1..12} \cup {"H", "E#", "Db", ""}
OctaveInputs == {-1100, -1017, -2, -1, 0, 4, 9, 1019, 1020}

\* Frequencies in hundredths of a MIDI number: a subnormal one, the smallest
\* normal one, tones just below, at and above the middle between two
\* semitones, and the largest doubles.
FreqInputs ==
  {-1290038, 100 * MinNormalMidi, 2049, 2050, 6000, 6049, 6050, 6900, 7250,
   MaxFiniteCents - 1200, MaxFiniteCents - 1199, MaxFiniteCents}

MaxSemitones == 25

PlayNames ==
  {<<"C", "4">>, <<"C", "5">>, <<"E", "4">>, <<"A", "b", "5">>, <<"E", "#", "4">>,
   <<"H", "4">>, <<"C">>, <<"F", "#">>}
PlaySecondArgs == {Undefined, Number(2), Number(6), Number(8), Number(40), Number(50)}

LibCall(c) ==
  /\ call' = c
  /\ UNCHANGED <<rhythm, screen, now, inst, created, calls, liveCtx, liveStreams, liveProcs,
                 detector, target, userNotes, statusText, statusClass,
                 recordStartTime, stars, session, sessionStars, stops, lastDelivery,
                 lastOp>>

\* parseNoteName(name), and noteNameToFreq(name) on the same name.
CallParseNoteName ==
  /\ screen = "lib"
  /\ \E name \in NameInputs :
       LibCall([fn |-> "parseNoteName", args |-> <<name>>, ret |-> parseNoteName(name),
                freq |-> noteNameToFreq(name)])

\* frequency = pitchClassToFreq(pc, octave), then freqToPitchClass(frequency).
CallCodec ==
  /\ screen = "lib"
  /\ \E pc \in PitchClassInputs, octave \in OctaveInputs :
       LET made == pitchClassToFreq(pc, octave)
       IN LibCall([fn |-> "pitchClassToFreq", args |-> <<pc, octave>>, ret |-> made,
                   back |-> IF made.ok THEN freqToPitchClass(made.freq) ELSE ""])

CallSemitoneDistance ==
  /\ screen = "lib"
  /\ \E freq1 \in FreqInputs :
       \E freq2 \in FreqInputs \cup {Twice(freq1)} :
         LibCall([fn |-> "semitoneDistance", args |-> <<freq1, freq2>>,
                  ret |-> semitoneDistance(freq1, freq2)])

CallIntervalName ==
  /\ screen = "lib"
  /\ \E semitones \in 0..MaxSemitones :
       LibCall([fn |-> "intervalNameFromSemitone", args |-> <<semitones>>,
                ret |-> intervalNameFromSemitone(semitones)])

CallPlaySingleNote ==
  /\ screen = "lib"
  /\ \E pcOrName \in PlayNames, octave \in PlaySecondArgs :
       LibCall([fn |-> "playSingleNote", args |-> <<pcOrName, octave>>,
                ret |-> playSingleNote(pcOrName, octave)])

InitLib ==
  /\ InitCommon
  /\ now = 0
  /\ screen = "lib"
  /\ created = 0
  /\ target = [none |-> TRUE]

NextLib ==
  \/ CallParseNoteName
  \/ CallCodec
  \/ CallSemitoneDistance
  \/ CallIntervalName
  \/ CallPlaySingleNote

SpecLib == InitLib /\ [][NextLib]_vars

----------------------------------------------------------------------------
(* rhythm.js *)

MaxPlays == 2
MaxRhythmTicks == 29
\* The patterns playPattern draws in the model: one of five durations and one
\* of four.
ModelPatterns == {2, 3}

\* The clock of the rhythm page moves on the grid of the durations, a quarter
\* of a second.
RhythmTickMs == 250

\* patterns[k].durations, in milliseconds (the source gives seconds).
patterns ==
  <<<<1000, 500, 500, 1000>>,
    <<500, 500, 1000, 500, 1500>>,
    <<750, 750, 750, 750>>,
    <<1500, 500, 500, 500, 1000>>>>

\* const tolerance = 0.3, in milliseconds.
tolerance == 300

RECURSIVE SumTo(_, _)
SumTo(q, n) == IF n = 0 THEN 0 ELSE SumTo(q, n - 1) + q[n]

Abs(x) == IF x < 0 THEN -x ELSE x

\* The timeouts playPattern sets: one beep per duration, the i-th at the sum
\* of the durations before it, and the enabling of the tap button half a
\* second after the last duration ends.
TimeoutsOf(k, t, play) ==
  {[kind |-> "beep", at |-> t + SumTo(patterns[k], i - 1), play |-> play, i |-> i] :
     i \in 1..Len(patterns[k])}
    \cup {[kind |-> "enable", at |-> t + SumTo(patterns[k], Len(patterns[k])) + 500,
           play |-> play, i |-> Len(patterns[k]) + 1]}

\* Timers fire in the order of their due time, and timers due at the same
\* time in the order they were set.
FiresBefore(a, b) ==
  \/ a.at < b.at
  \/ a.at = b.at /\ a.play < b.play
  \/ a.at = b.at /\ a.play = b.play /\ a.i < b.i

NextTimeout(r) == CHOOSE a \in r.timers : \A b \in r.timers \ {a} : FiresBefore(a, b)

RhythmFrame ==
  UNCHANGED <<call, screen, inst, created, calls, liveCtx, liveStreams, liveProcs,
              detector, target, userNotes, recordStartTime, session, sessionStars,
              stops, lastDelivery, lastOp>>

\* playBtn click: playPattern up to the end of its synchronous part.
playPattern ==
  /\ screen = "rhythm"
  /\ rhythm.plays < MaxPlays
  /\ \E k \in ModelPatterns :
       rhythm' = [rhythm EXCEPT !.currentPattern = k,
                                !.tapDisabled = TRUE,
                                !.plays = @ + 1,
                                !.timers = @ \cup TimeoutsOf(k, now, rhythm.plays + 1),
                                !.overlapped = @ \/ rhythm.timers # {},
                                !.lastTap = "none"]
  /\ statusText' = Status("Sluchaj rytmu...", 0, "")
  /\ statusClass' = "status"
  /\ UNCHANGED <<now, stars>>
  /\ RhythmFrame

\* A timeout of playPattern comes due.  The beep is playSingleNote('C5', 0.2,
\* 0.35); the last timeout enables tapping.
Timeout ==
  /\ screen = "rhythm"
  /\ rhythm.timers # {}
  /\ LET a == NextTimeout(rhythm)
         rest == [rhythm EXCEPT !.timers = @ \ {a}, !.lastTap = "none"]
     IN /\ a.at <= now
        /\ IF a.kind = "beep"
           THEN /\ rhythm' = [rest EXCEPT !.tones =
                                IF playSingleNote(<<"C", "5">>, Number(2)).thrown
                                THEN @ ELSE @ + 1]
                /\ UNCHANGED <<statusText, statusClass>>
           ELSE /\ rhythm' = [rest EXCEPT !.tapDisabled = FALSE,
                                          !.userTaps = <<>>,
                                          !.listening = TRUE,
                                          !.round = @ + 1,
                                          !.roundTaps = 0]
                /\ statusText' = Status("Teraz Twoj ruch! Klikaj w rytmie.", 0, "")
                /\ UNCHANGED statusClass
  /\ UNCHANGED <<now, stars>>
  /\ RhythmFrame

\* avgDev = totalDeviation / expected.length against 0.1 and 0.2 seconds.
RhythmStars(total, n) ==
  IF total <= 100 * n THEN 3 ELSE IF total <= 200 * n THEN 2 ELSE 1

\* evaluateRhythm on the taps recorded: the status it displays, the stars it
\* adds, and whether it ends the listening.
evaluateRhythm(r) ==
  LET expected == patterns[r.currentPattern]
      taps == r.userTaps
      diff(i) == Abs(taps[i] - expected[i])
      ok == \A i \in 1..Len(expected) : ~(diff(i) > tolerance)
      total == SumTo([i \in 1..Len(expected) |-> diff(i)], Len(expected))
      n == RhythmStars(total, Len(expected))
  IN IF r.currentPattern = 0
     THEN [done |-> FALSE, text |-> statusText, class |-> statusClass, stars |-> 0]
     ELSE IF Len(taps) # Len(expected)
     THEN [done |-> FALSE,
           text |-> Status("Nie nacisnales odpowiedniej liczby razy.", 0, ""),
           class |-> "status result-failure", stars |-> 0]
     ELSE IF ok
     THEN [done |-> TRUE,
           text |-> Status("Swietnie! Prawidlowo powtorzyles rytm.", n, ""),
           class |-> "status result-success", stars |-> n]
     ELSE [done |-> TRUE,
           text |-> Status("Rytm nie byl dokladny. Sprobuj ponownie.", 0, ""),
           class |-> "status result-failure", stars |-> 0]

\* handleTap: what it leaves in the page's variables.
handleTap(r, t) ==
  IF ~r.listening THEN [r EXCEPT !.lastTap = "ignored"]
  ELSE IF r.lastTapTime = NullTime
  THEN [r EXCEPT !.lastTapTime = t, !.roundTaps = @ + 1, !.lastTap = "marked"]
  ELSE LET tapped == [r EXCEPT !.userTaps = Append(@, t - r.lastTapTime),
                              !.lastTapTime = t,
                              !.roundTaps = @ + 1]
       IN IF Len(tapped.userTaps) = Len(patterns[r.currentPattern])
          THEN [tapped EXCEPT !.listening = ~evaluateRhythm(tapped).done /\ @,
                              !.lastTapTime = NullTime,
                              !.lastTap = "evaluated"]
          ELSE [tapped EXCEPT !.lastTap = "recorded"]

\* tapBtn click; a disabled button sends no click.
Tap ==
  /\ screen = "rhythm"
  /\ ~rhythm.tapDisabled
  /\ LET r == handleTap(rhythm, now)
         e == evaluateRhythm(r)
     IN /\ rhythm' = r
        /\ IF r.lastTap = "evaluated"
           THEN /\ statusText' = e.text
                /\ statusClass' = e.class
                /\ stars' = stars + e.stars
           ELSE UNCHANGED <<statusText, statusClass, stars>>
  /\ UNCHANGED now
  /\ RhythmFrame

\* Time passes on the rhythm page; a timeout that is due fires first.
RhythmTick ==
  /\ screen = "rhythm"
  /\ \A a \in rhythm.timers : a.at > now
  /\ now + RhythmTickMs <= MaxRhythmTicks * RhythmTickMs
  /\ now' = now + RhythmTickMs
  /\ rhythm' = [rhythm EXCEPT !.lastTap = "none"]
  /\ UNCHANGED <<statusText, statusClass, stars>>
  /\ RhythmFrame

\* The rhythm page after its script ran: nothing is chosen or scheduled.
InitRhythm ==
  /\ InitCommon
  /\ now = 0
  /\ screen = "rhythm"
  /\ created = 0
  /\ target = [none |-> TRUE]

NextRhythm ==
  \/ playPattern
  \/ Timeout
  \/ Tap
  \/ RhythmTick

SpecRhythm == InitRhythm /\ [][NextRhythm]_vars

----------------------------------------------------------------------------
(* intervals.js: evaluateInterval on every pair the page can collect *)

\* The semitones of INTERVAL_OPTIONS, and BASE_NOTES.
INTERVAL_OPTIONS == 1..11
BASE_NOTES ==
  {<<"C", "3">>, <<"D", "3">>, <<"E", "3">>, <<"F", "3">>, <<"G", "3">>,
   <<"A", "3">>, <<"B", "3">>, <<"C", "4">>, <<"D", "4">>, <<"E", "4">>}

\* A tone of the pitch class n, in the octave of middle C.
ToneOf(n) == 100 * (60 + IndexOfNote(n))

\* A session of the interval page whose detector is capturing hears n1 and
\* then n2: the verdict displayed after the two callbacks, and the distance
\* evaluateInterval computed.
PlayedPair(n1, n2) ==
  LET w0 == [World EXCEPT !.detector = 1, !.userNotes = <<>>]
      w1 == IntervalsOnFrequency(w0, ToneOf(n1), now)
      w2 == IntervalsOnFrequency(w1, ToneOf(n2), now)
  IN [verdict |-> Verdict(w2.statusText),
      collected |-> w2.userNotes,
      distance |-> observedDistance(IndexOfNote(n1), IndexOfNote(n2))]

\* The learner played the two pitch classes in one order, and in another
\* attempt in the other order.
EvaluatePair ==
  /\ screen = "pair"
  /\ call = NoLibCall
  /\ LibCall([fn |-> "evaluateInterval",
              args |-> <<target.played[1], target.played[2], target.semitone>>,
              ret |-> PlayedPair(target.played[1], target.played[2]),
              back |-> PlayedPair(target.played[2], target.played[1])])

\* An interval exercise as pickRandomInterval sets it up, and two distinct
\* pitch classes to be played.
InitPair ==
  /\ InitCommon
  /\ now = PageReadyMs
  /\ screen = "pair"
  /\ created = 0
  /\ \E i \in 1..12, j \in 1..12, semitone \in INTERVAL_OPTIONS, b \in BASE_NOTES :
       /\ i # j
       /\ target = [semitone |-> semitone,
                    notes |-> IntervalTarget(semitone, b).notes,
                    played |-> <<NOTE_NAMES[i], NOTE_NAMES[j]>>]

NextPair == EvaluatePair

SpecPair == InitPair /\ [][NextPair]_vars

----------------------------------------------------------------------------
(* Properties *)

\* The capture resources made by the start() calls of instance d that are
\* still open.
LiveCtxOf(d) == {r \in liveCtx : r[1] = d}
LiveStreamsOf(d) == {r \in liveStreams : r[1] = d}
LiveProcsOf(d) == {p.id : p \in {q \in liveProcs : q.id[1] = d}}
HeldBy(d) == LiveCtxOf(d) \cup LiveStreamsOf(d) \cup LiveProcsOf(d)
Capturing(d) == LiveProcsOf(d) # {}
Pending(d) == \E g \in 1..MaxStarts : calls[<<d, g>>].promise = "pending"
Restarted(d) == \E g \in 1..MaxStarts : calls[<<d, g>>].restart
AllReleased(i) ==
  /\ i.processor = NoRes
  /\ i.source = NoRes
  /\ i.stream = NoRes
  /\ i.audioCtx = NoRes
  /\ ~i.detector

\* C1: on an exercise screen at most one NoteDetector is capturing, and while
\* the detector of a later session holds any capture resource (context,
\* stream, processor) the detectors of the earlier sessions hold none.
C1_OneDetectorCapturing ==
  /\ Cardinality({d \in Detectors : Capturing(d)}) <= 1
  /\ \A d1, d2 \in Detectors :
       (d1 < d2 /\ HeldBy(d2) # {}) => HeldBy(d1) = {}

\* C2: once stop() has been called on a detector and start() has not been
\* called since, the detector holds no microphone stream and no processor,
\* and it delivers no onFrequency callback.
C2_StopHaltsDetector ==
  [][\A d \in Detectors :
       /\ stops'[d] > 0 =>
            /\ inst'[d].stream = NoRes
            /\ inst'[d].processor = NoRes
            /\ LiveStreamsOf(d)' = {}
            /\ LiveProcsOf(d)' = {}
       /\ (stops[d] > 0 /\ stops'[d] > 0) => lastDelivery'[d] = lastDelivery[d]
    ]_vars

\* C3: stop() leaves every field of the detector null and nothing it
\* referenced open, whatever state it is called in (never started, start
\* failed, capturing, already stopped), and a second stop() changes nothing.
C3_StopIdempotent ==
  /\ lastOp.op = "stop" => AllReleased(inst[lastOp.d])
  /\ \A d \in 1..created :
       LET w1 == stop(World, d)
       IN /\ AllReleased(w1.inst[d])
          /\ inst[d].audioCtx \notin w1.liveCtx
          /\ inst[d].stream \notin w1.liveStreams
          /\ \A p \in w1.liveProcs : p.id # inst[d].processor
          /\ stop(w1, d) = w1

\* stop() was called twice in succession on a detector whose only start()
\* had failed for want of a microphone.
C3_Witness ==
  /\ lastOp.op = "stop"
  /\ stops[1] = 2
  /\ StartCount(1) = 1
  /\ calls[<<1, 1>>].mic = "denied"

\* C4: after start() was called on a capturing detector and every start()
\* has settled, the only stream and processor open for the instance are the
\* ones it references, and after a stop() no context, stream or processor of
\* the instance is open.
C4_NoDuplicateCaptureLoop ==
  \A d \in Detectors :
    (Restarted(d) /\ ~Pending(d)) =>
      /\ LiveStreamsOf(d) \subseteq {inst[d].stream}
      /\ LiveProcsOf(d) \subseteq {inst[d].processor}
      /\ stops[d] > 0 => HeldBy(d) = {}

\* C5: a start() that could not obtain the microphone does not settle the way
\* a successful start() does (fulfilled with undefined): its promise rejects.
C5_FailureReported ==
  \A c \in CallIds : calls[c].mic = "denied" => calls[c].promise = "rejected"

\* C6: while the microphone of the current session's detector was refused,
\* no verdict is shown, the session has earned no star and has collected no
\* note.
C6_FailedStartStaysCollecting ==
  (created > 0 /\ calls[<<created, 1>>].mic = "denied") =>
    /\ Verdict(statusText) = "collecting"
    /\ sessionStars = 0
    /\ userNotes = <<>>

C9_VerdictAbsorbing ==
  [][session' = session =>
       /\ ~(Verdict(statusText) = "success" /\ Verdict(statusText') = "failure")
       /\ ~(Verdict(statusText) = "failure" /\ Verdict(statusText') = "success")
       /\ sessionStars' > sessionStars => Verdict(statusText') = "success"
    ]_vars

\* The distinct pitch classes collected cover the chord.
Covers(notes, expected) ==
  /\ notes # <<>>
  /\ \A k \in 1..Len(expected) : Includes(notes, expected[k])

\* C10: on the chords screen the event at which the collected pitch classes
\* come to cover the chord shows the success verdict.
C10_SupersetGivesSuccess ==
  [][(/\ screen = "chords"
      /\ ~Covers(userNotes, target.expected)
      /\ Covers(userNotes', target'.expected))
       => Verdict(statusText') = "success"]_vars

\* A step in which a detection was delivered to the page's callback, and the
\* pitch class it carried.
Delivering == lastDelivery' # lastDelivery
HeardPc == freqToPitchClass(lastOp'.pitch)

\* The page's detector is stopped: the page's variable is null and the
\* instance it referenced holds no stream and no processor.
PageDetectorStopped ==
  /\ detector' = 0
  /\ detector # 0 =>
       /\ inst'[detector].stream = NoRes
       /\ inst'[detector].processor = NoRes
       /\ ~inst'[detector].detector

C12_RepeatedNoteIgnored ==
  [][(/\ screen = "chords"
      /\ Delivering
      /\ Includes(userNotes, HeardPc))
       => /\ UNCHANGED <<userNotes, statusText, statusClass, stars, sessionStars,
                         detector, liveCtx, liveStreams, liveProcs, stops>>
          /\ inst' = [inst EXCEPT ![lastOp'.d].lastDetectTime = now]]_vars

\* A pitch class that was already in the list, and not the last appended,
\* was heard again.
C12_Witness ==
  /\ screen = "chords"
  /\ lastOp.op = "frame"
  /\ Includes(userNotes, freqToPitchClass(lastOp.pitch))
  /\ userNotes[Len(userNotes)] # freqToPitchClass(lastOp.pitch)

\* C13: on the memory screen the event that brings the observed list to the
\* length of the sequence shows success when the list equals the sequence
\* at every index, and failure otherwise.
C13_SequenceJudgedAtLength ==
  [][(/\ screen = "memory"
      /\ Delivering
      /\ userNotes' # userNotes
      /\ Len(userNotes') = Len(target.expected))
       => Verdict(statusText') =
            (IF userNotes' = target.expected THEN "success" ELSE "failure")]_vars

\* C14: on the memory screen no verdict is shown while fewer notes than the
\* sequence has are collected, whatever was collected, and a verdict only
\* appears in the step that brings the observed list to the full length.
C14_NoEarlyVerdict ==
  [][screen = "memory" =>
       /\ Len(userNotes') < Len(target'.expected)
            => Verdict(statusText') = "collecting"
       /\ (Verdict(statusText') # "collecting" /\ statusText' # statusText)
            => (/\ Delivering
                /\ userNotes' = Append(userNotes, HeardPc)
                /\ Len(userNotes') = Len(target.expected))]_vars

\* A wrong first note was collected, fewer notes than the sequence has are
\* in the list, and no verdict is shown.
C14_Witness ==
  /\ screen = "memory"
  /\ lastOp.op = "frame"
  /\ userNotes # <<>>
  /\ Len(userNotes) < Len(target.expected)
  /\ userNotes[1] # target.expected[1]
  /\ Verdict(statusText) = "collecting"

\* C15 as stated: on the memory screen every event delivered while fewer
\* notes than the sequence has are collected and no verdict is shown is
\* appended to the observed list, whatever its pitch class.
C15_EveryEventAppended ==
  [][(/\ screen = "memory"
      /\ Delivering
      /\ Verdict(statusText) = "collecting"
      /\ Len(userNotes) < Len(target.expected))
       => userNotes' = Append(userNotes, HeardPc)]_vars

\* C15 amended: a delivered event is appended when its pitch class is a
\* natural and fewer notes than the sequence has are collected; any other
\* delivered event leaves the observed list as it was.
C15_NaturalsAppended ==
  [][(screen = "memory" /\ Delivering)
       => userNotes' =
            (IF HeardPc \in Naturals7 /\ Len(userNotes) < Len(target.expected)
             THEN Append(userNotes, HeardPc)
             ELSE userNotes)]_vars

\* A C sharp was delivered while notes were still awaited, a C and no C sharp
\* being in the list.
C15_Witness ==
  /\ screen = "memory"
  /\ lastOp.op = "frame"
  /\ freqToPitchClass(lastOp.pitch) = "C#"
  /\ userNotes = <<"C">>
  /\ Len(userNotes) < Len(target.expected)

\* The ascending distance in semitones from the first to the second pitch
\* class of a list.
Distance(notes) == (IndexOfNote(notes[2]) - IndexOfNote(notes[1])) % 12

\* C16: on the intervals screen the event that brings the second distinct
\* pitch class shows success when the distance from the first to the second
\* equals the target distance, and failure otherwise.
C16_IntervalJudgedOnSecondNote ==
  [][(/\ screen = "intervals"
      /\ Delivering
      /\ userNotes' # userNotes
      /\ Len(userNotes') = 2)
       => Verdict(statusText') =
            (IF Distance(userNotes') = target.semitone THEN "success"
             ELSE "failure")]_vars

\* The labels of the distances 1..11.
IntervalLabels ==
  <<"sekunda mala", "sekunda wielka", "tercja mala", "tercja wielka",
    "kwarta czysta", "tryton", "kwinta czysta", "seksta mala", "seksta wielka",
    "septyma mala", "septyma wielka">>

\* C17: on the intervals screen a failure verdict carries the label of the
\* distance from the first to the second collected pitch class, which lies
\* in 1..11; C then F against another target is named "kwarta czysta".
C17_FailureNamesInterval ==
  screen = "intervals" =>
    /\ Verdict(statusText) = "failure" =>
         /\ Len(userNotes) >= 2
         /\ Distance(userNotes) \in 1..11
         /\ statusText.heard = IntervalLabels[Distance(userNotes)]
    /\ LET w == evaluateInterval([World EXCEPT !.userNotes = <<"C", "F">>], now)
       IN target.semitone # 5 =>
            /\ Verdict(w.statusText) = "failure"
            /\ w.statusText.heard = "kwarta czysta"

\* A mismatch was judged: C then E against the fifth.
C17_Witness ==
  /\ screen = "intervals"
  /\ lastOp.op = "frame"
  /\ target.semitone = 7
  /\ userNotes = <<"C", "E">>
  /\ Verdict(statusText) = "failure"
  /\ statusText.heard = "tercja wielka"

\* C18: on the reading screen an event delivered after a verdict is shown
\* changes neither the status nor the star counter.
C18_SingleShot ==
  [][(/\ screen = "reading"
      /\ Delivering
      /\ Verdict(statusText) # "collecting")
       => UNCHANGED <<statusText, statusClass, stars>>]_vars

\* The natural letter of each of the twelve pitch classes.
NaturalOf ==
  [pc \in {NOTE_NAMES[i] : i \in 1..12} |->
     CASE pc \in {"C", "C#"} -> "C"
       [] pc \in {"D", "D#"} -> "D"
       [] pc = "E" -> "E"
       [] pc \in {"F", "F#"} -> "F"
       [] pc \in {"G", "G#"} -> "G"
       [] pc \in {"A", "A#"} -> "A"
       [] OTHER -> "B"]

\* C19: on the reading screen a delivered event shows success when its pitch
\* class without the sharp sign is the letter of the target note, and
\* failure otherwise.
C19_NaturalComparison ==
  [][(screen = "reading" /\ Delivering)
       => Verdict(statusText') =
            (IF NaturalOf[HeardPc] = target.note[1] THEN "success"
             ELSE "failure")]_vars

\* A C sharp was heard for the target C5 and success is shown.
C19_Witness ==
  /\ screen = "reading"
  /\ lastOp.op = "frame"
  /\ freqToPitchClass(lastOp.pitch) = "C#"
  /\ target.note = <<"C", "5">>
  /\ Verdict(statusText) = "success"

\* C20: the star counter only changes in a step that leaves the success
\* verdict displayed, by 1, 2 or 3, and once in a session.
C20_StarsOnlyOnSuccess ==
  [][stars' # stars =>
       /\ stars' - stars \in 1..3
       /\ Verdict(statusText') = "success"
       /\ session' = session
       /\ sessionStars = 0]_vars

----------------------------------------------------------------------------
(* Reward tiers *)

\* The fast and medium cutoffs of each matcher, in milliseconds: single note,
\* interval, chord, and a sequence of N notes.
CutoffsMs ==
  CASE screen = "reading" -> <<3000, 6000>>
    [] screen = "intervals" -> <<4000, 8000>>
    [] screen = "chords" -> <<5000, 10000>>
    [] screen = "memory" -> <<2000 * Len(target.expected), 4000 * Len(target.expected)>>

RewardTier(elapsed) ==
  IF elapsed <= CutoffsMs[1] THEN 3 ELSE IF elapsed <= CutoffsMs[2] THEN 2 ELSE 1

\* C21: whenever a matcher awards stars, the amount is 3 when the time from
\* the session's start to the terminating event is at most the matcher's fast
\* cutoff, 2 when it is at most the medium cutoff and 1 otherwise, and the
\* success message shows that amount.
C21_RewardByElapsedTime ==
  [][stars' # stars =>
       /\ stars' - stars = RewardTier(now - recordStartTime)
       /\ Verdict(statusText') = "success" => statusText'.stars = stars' - stars]_vars

\* A sequence repeated correctly after more than 6 and at most 12 seconds.
C21_Witness ==
  /\ screen = "memory"
  /\ Verdict(statusText) = "success"
  /\ statusText.stars = 2
  /\ stars = 2
  /\ userNotes = target.expected

----------------------------------------------------------------------------
(* Targets and verdict texts *)

\* C22: while the detector the page started is capturing and the page still
\* holds it (the session has no verdict yet), no step changes the target its
\* events are compared against.
C22_TargetFixedDuringRound ==
  [][(/\ detector # 0
      /\ Capturing(detector)
      /\ detector' = detector
      /\ Capturing(detector)')
       => target' = target]_vars

\* C23: every failure verdict on display tells what was heard (the field
\* `heard` holds the part of the message that the callback fills in with the
\* notes or the interval it heard; it is empty for a fixed text).
C23_FailureIsDescriptive ==
  Verdict(statusText) = "failure" => statusText.heard # ""

----------------------------------------------------------------------------
(* The codec of common.js *)

Canonical == {NOTE_NAMES[i] : i \in 1..12}

\* C24: whenever parseNoteName accepts a string, the pitch class it returns
\* is one of the 12 canonical sharp-spelled classes.
C24_ParsedPitchClassCanonical ==
  (call.fn = "parseNoteName" /\ call.ret.ok) => call.ret.pc \in Canonical

\* The sharp-spelled class a semitone below each letter, and the octaves the
\* names are written with.
FlatOf(letter) ==
  CASE letter = "A" -> "G#" [] letter = "B" -> "A#" [] letter = "C" -> "B"
    [] letter = "D" -> "C#" [] letter = "E" -> "D#" [] letter = "F" -> "E"
    [] letter = "G" -> "F#"

OctaveTexts == {<<"4">>, <<"5">>, <<"-", "1">>, <<"1", "0">>}
OctaveOf(text) ==
  CASE text = <<"4">> -> 4 [] text = <<"5">> -> 5 [] text = <<"-", "1">> -> -1
    [] text = <<"1", "0">> -> 10

\* C25: for every letter X of A..G and octave o, parseNoteName of X, "b", o
\* returns the class one semitone below X (B for Cb) with the octave o; "Ab5"
\* and "G#5" both give G# with octave 5.
C25_FlatIsSharpBelow ==
  call.fn = "parseNoteName" =>
    /\ \A letter \in Naturals7, text \in OctaveTexts :
         call.args = << <<letter, "b">> \o text >>
           => call.ret = [ok |-> TRUE, pc |-> FlatOf(letter), octave |-> OctaveOf(text)]
    /\ call.args = << <<"G", "#", "5">> >>
         => call.ret = [ok |-> TRUE, pc |-> FlatOf("A"), octave |-> 5]

\* "Cb4" parsed: the flat of the first class wraps around to the last.
C25_Witness ==
  /\ call.fn = "parseNoteName"
  /\ call.args = << <<"C", "b", "4">> >>
  /\ call.ret = [ok |-> TRUE, pc |-> "B", octave |-> 4]

NormalOctave(octave) ==
  /\ (octave + 1) * 12 >= MinNormalMidi
  /\ (octave + 1) * 12 + 11 <= MaxFiniteCents \div 100

C27_DistanceDiscardsOctaves ==
  call.fn = "semitoneDistance" =>
    /\ call.ret \in 0..11
    /\ call.args[2] = call.args[1] => call.ret = 0
    /\ call.args[2] = Twice(call.args[1]) => call.ret = 0

\* C29: for every n >= 12 intervalNameFromSemitone returns the label it
\* returns for n mod 12.
C29_LabelReducedModulo12 ==
  (call.fn = "intervalNameFromSemitone" /\ call.args[1] >= 12)
    => call.ret = intervalNameFromSemitone(call.args[1] % 12)

\* C30: playSingleNote called with a name that parseNoteName accepts with a
\* canonical pitch class, and a number as the duration, raises no error and
\* plays the frequency of noteNameToFreq(name).
C30_PlaysNamedNote ==
  (/\ call.fn = "playSingleNote"
   /\ parseNoteName(call.args[1]).ok
   /\ parseNoteName(call.args[1]).pc \in Canonical
   /\ call.args[2].type = "number")
    => /\ ~call.ret.thrown
       /\ call.ret.freq = noteNameToFreq(call.args[1]).freq

----------------------------------------------------------------------------
(* The rhythm page *)

\* C31: in every listening round of the rhythm exercise the first tap only
\* marks the start and every later tap records one interval, so the taps
\* recorded are one fewer than the taps of the round, and a pattern of N
\* durations is evaluated on tap N + 1 of the round, also after a round that
\* was abandoned.  Stated for the learner who never clicks the play button
\* while a playback is still pending.
C31_FirstTapOnlyMarks ==
  ~rhythm.overlapped /\ rhythm.round > 0 /\ rhythm.roundTaps > 0
    => /\ Len(rhythm.userTaps) = rhythm.roundTaps - 1
       /\ rhythm.lastTap = "evaluated"
            => rhythm.roundTaps = Len(patterns[rhythm.currentPattern]) + 1

\* C32: tapping is enabled only after playback has ended: whenever the tap
\* button is enabled and the page listens, no beep of the pattern played
\* last is still scheduled, also when the play button was clicked again
\* while an earlier playback was pending.
C32_TapOnlyAfterPlayback ==
  ~rhythm.tapDisabled /\ rhythm.listening
    => ~\E a \in rhythm.timers : a.kind = "beep" /\ a.play = rhythm.plays

----------------------------------------------------------------------------
(* The interval matcher: direction *)

\* C33: the interval matcher is direction-sensitive: for two distinct pitch
\* classes the observed distance in one order and in the other add up to 12,
\* each order succeeds exactly when its distance is the target, and so both
\* orders succeed only when the target is 6 semitones.
C33_ReverseOrderComplements ==
  call.fn = "evaluateInterval" =>
    /\ call.ret.distance + call.back.distance = 12
    /\ call.ret.verdict = "success" <=> call.ret.distance = call.args[3]
    /\ call.back.verdict = "success" <=> call.back.distance = call.args[3]
    /\ call.ret.verdict = "success" /\ call.back.verdict = "success"
         => call.args[3] = 6

\* A correct interval of 7 semitones, played in the reverse order, was judged
\* a failure of 5 semitones.
C33_Witness ==
  /\ call.fn = "evaluateInterval"
  /\ call.args[3] = 7
  /\ call.ret.verdict = "success"
  /\ call.back.verdict = "failure"
  /\ call.back.distance = 5

----------------------------------------------------------------------------
(* Sessions and their streams *)

\* C34: whenever an exercise page displays a terminal verdict, the stream of
\* the session is stopped: the page's detector variable is null and no
\* detector of the page is still capturing or holds a live microphone stream.
C34_VerdictStopsStream ==
  screen \in {"chords", "intervals", "memory", "reading"}
    /\ Verdict(statusText) # "collecting"
    => /\ detector = 0
       /\ \A d \in Detectors : ~Capturing(d) /\ LiveStreamsOf(d) = {}

----------------------------------------------------------------------------
(* The interval exercise: the reference notes *)

\* The MIDI number of a parsed note name.
MidiOf(note) == IndexOfNote(note.pc) + (note.octave + 1) * 12

\* C35: every exercise pickRandomInterval sets up is consistent: the second
\* reference note lies currentIntervalSemitone semitones above the base
\* note, the two have distinct pitch classes, and a learner who plays the two
\* displayed pitch classes in the displayed order gets the success verdict.
C35_ExerciseConsistent ==
  screen = "pair" =>
    LET base == parseNoteName(target.notes[1])
        second == parseNoteName(target.notes[2])
    IN /\ base.ok /\ second.ok
       /\ MidiOf(second) = MidiOf(base) + target.semitone
       /\ base.pc # second.pc
       /\ call.fn = "evaluateInterval"
            /\ call.args[1] = base.pc /\ call.args[2] = second.pc
            => call.ret.verdict = "success"

\* The learner played B and then D#, the pitch classes displayed for a major
\* third on B3, whose second note lies in the next octave.
C35_Witness ==
  /\ call.fn = "evaluateInterval"
  /\ target.notes = << <<"B", "3">>, <<"D", "#", "4">> >>
  /\ target.semitone = 4
  /\ call.args[1] = "B" /\ call.args[2] = "D#"
  /\ call.ret.verdict = "success"

----------------------------------------------------------------------------
(* The observed lists *)

NoDuplicates(list) ==
  \A i \in 1..Len(list), j \in 1..Len(list) : i # j => list[i] # list[j]

\* C36: in every reachable state the observed lists stay within their
\* bounds: the sequence page's list has at most as many entries as the
\* sequence, the interval page's list has at most 2 entries, all distinct,
\* and the chord page's list has no duplicates and at most one entry more
\* than the chord has notes.
C36_ObservedListsBounded ==
  /\ screen = "memory" => Len(userNotes) <= Len(target.expected)
  /\ screen = "intervals" => Len(userNotes) <= 2 /\ NoDuplicates(userNotes)
  /\ screen = "chords" =>
       NoDuplicates(userNotes) /\ Len(userNotes) <= Len(target.expected) + 1

----------------------------------------------------------------------------
(* Termination of a session *)

\* The delivered event of the step is the one that completes the input of
\* the session: any event on the reading page, the event that fills the
\* sequence, the second distinct pitch class of an interval, the pitch class
\* that exceeds the chord.
CompletesInput ==
  /\ Delivering
  /\ \/ screen = "reading"
     \/ screen = "memory"
          /\ Len(userNotes) < Len(target.expected)
          /\ Len(userNotes') = Len(target.expected)
     \/ screen = "intervals" /\ Len(userNotes) = 1 /\ Len(userNotes') = 2
     \/ screen = "chords"
          /\ Len(userNotes) = Len(target.expected)
          /\ Len(userNotes') = Len(target.expected) + 1

\* C37: once capture has started, a session ends when its input is complete:
\* the event that completes it (1 event for a single note, the N-th recorded
\* event of a sequence, the second distinct pitch class of an interval, at
\* the latest pitch class K + 1 of a chord) leaves a terminal verdict
\* displayed, the page's detector variable null and the detector that
\* delivered the event no longer capturing.
C37_SessionTerminates ==
  [][CompletesInput =>
       /\ Verdict(statusText') # "collecting"
       /\ detector' = 0
       /\ \A p \in liveProcs' : p.id[1] # lastOp'.d
    ]_vars

----------------------------------------------------------------------------
(* Flat names and their pitch *)

\* C38: a flat note name denotes the pitch one semitone below the natural
\* note of the same letter and octave: for every letter X of A..G and octave
\* o, the MIDI number behind noteNameToFreq of X, "b", o is one less than the
\* MIDI number behind noteNameToFreq of X, o, also for Cb.
C38_FlatPitchSemitoneBelow ==
  call.fn = "parseNoteName" =>
    \A letter \in Naturals7, text \in OctaveTexts :
      call.args = << <<letter, "b">> \o text >>
        => /\ call.freq.ok
           /\ call.freq.freq = noteNameToFreq(<<letter>> \o text).freq - 100

====
